---- MODULE Spec2Model ----
(***************************************************************************)
(* Model of the folder token counter (count_tokens_folder.py):             *)
(* discovery of the files under a root, the include/exclude filter, the    *)
(* binary classifier, the thread pool that runs _process_single_file and   *)
(* the fold of the per-file results into ProcessingStats.                  *)
(*                                                                         *)
(* Strings that the code inspects (file names, patterns) are sequences of  *)
(* one-character strings; file contents are sequences of byte values.      *)
(***************************************************************************)
EXTENDS Integers, Sequences, FiniteSets, TLC

\* ------------------------------------------------------------------ bounds
\* Largest number of files the directory tree holds in one run.
MaxFiles == 3
\* Largest value of max_workers (--max-workers) explored.
MaxWorkers == 2
\* Longest include / exclude pattern list explored by the filter runs.
MaxPatterns == 2
\* Longest byte chunk handed to the binary classifier on its own (besides the
\* long contents that reach past chunk_size).
MaxChunk == 10
\* Longest file content handed to _process_single_file on its own.
MaxContent == 4

\* ------------------------------------------------------- the file system
\* The files that can exist under the root.  root is the directory part
\* relative to the folder being scanned, filename the base name, content
\* the bytes on disk, sample_error whether opening the file for the binary
\* sample fails with an OSError.  They are listed in os.walk order (the
\* files of the top directory before those of its subdirectory).
FS ==
  << [root |-> <<>>,    filename |-> <<"a">>,      content |-> <<65, 65, 65>>,
      sample_error |-> FALSE],
     [root |-> <<>>,    filename |-> <<"a", "b">>, content |-> <<0, 65>>,
      sample_error |-> FALSE],
     [root |-> <<"b">>, filename |-> <<"a">>,      content |-> <<>>,
      sample_error |-> FALSE],
     [root |-> <<"b">>, filename |-> <<"b">>,
      content |-> <<65, 10, 65, 65, 65, 255>>,
      sample_error |-> FALSE],
     [root |-> <<"b">>, filename |-> <<"b", "a">>, content |-> <<65, 65>>,
      sample_error |-> TRUE] >>

Paths == 1..Len(FS)

\* The glob patterns explored.
Patterns == { <<"a", "*">>, <<"b", "*">>, <<"?", "[ab]">> }

\* ------------------------------------------------------------ fnmatch
\* One pattern element against one character of the name.
MatchChar(c, p) ==
  IF p = "?" THEN TRUE
  ELSE IF p = "[ab]" THEN c \in {"a", "b"}
  ELSE c = p

\* fnmatch.fnmatch(name, pat): shell-glob match of the whole name.
RECURSIVE fnmatch(_, _)
fnmatch(name, pat) ==
  IF pat = <<>> THEN name = <<>>
  ELSE IF Head(pat) = "*"
       THEN fnmatch(name, Tail(pat))
            \/ (name # <<>> /\ fnmatch(Tail(name), pat))
       ELSE /\ name # <<>>
            /\ MatchChar(Head(name), Head(pat))
            /\ fnmatch(Tail(name), Tail(pat))

\* str(Path(root) / filename)
FullPath(f) ==
  IF FS[f].root = <<>> THEN FS[f].filename
  ELSE FS[f].root \o <<"/">> \o FS[f].filename

\* (mutant: the patterns are matched against the whole path)
MatchTargetWholePath(f) == FullPath(f)

\* The string the patterns are matched against: the name os.walk yields.
MatchTarget(f) == FS[f].filename

\* "Skip if doesn't match include patterns"
SkipInclude(f, include_patterns) ==
  /\ include_patterns # <<>>
  /\ ~ \E i \in 1..Len(include_patterns) :
         fnmatch(MatchTarget(f), include_patterns[i])

\* "Skip if matches exclude patterns"
SkipExclude(f, exclude_patterns) ==
  /\ exclude_patterns # <<>>
  /\ \E i \in 1..Len(exclude_patterns) :
         fnmatch(MatchTarget(f), exclude_patterns[i])

\* ------------------------------------------------------------- os.walk
\* The directories of FS: the root and its subdirectory.
Dirs == { <<>>, <<"b">> }

\* The files os.walk(folder_path) yields.  os.walk is called without onerror,
\* so a directory that cannot be listed is skipped without an exception, and
\* the subdirectory is only reached through the listing of the root.
Walk(tree, unlistable) ==
  { f \in tree : <<>> \notin unlistable /\ FS[f].root \notin unlistable }

\* ---------------------------------------------------- binary classifier
chunk_size == 1024

Printable(byte) == (32 <= byte /\ byte <= 126) \/ byte \in {9, 10, 13}

\* file.read(chunk_size)
ReadChunk(content, n) ==
  SubSeq(content, 1, IF Len(content) < n THEN Len(content) ELSE n)

\* (mutant: a chunk with exactly 70% printable bytes is taken as binary)
BelowThresholdInclusive(printable_chars, n) == 10 * printable_chars <= 7 * n

\* (printable_chars / len(chunk)) < 0.7
BelowThreshold(printable_chars, n) == 10 * printable_chars < 7 * n

\* The body of _is_binary_file for a file with the given bytes; sample_error
\* says that open or read raises IOError / OSError.
is_binary(content, sample_error) ==
  IF sample_error THEN TRUE
  ELSE LET chunk == ReadChunk(content, chunk_size)
           printable_chars ==
             Cardinality({i \in 1..Len(chunk) : Printable(chunk[i])})
       IN  IF chunk = <<>> THEN FALSE
           ELSE IF \E i \in 1..Len(chunk) : chunk[i] = 0 THEN TRUE
           ELSE BelowThreshold(printable_chars, Len(chunk))

\* (mutant: a sample that cannot be read is taken as text)
TokenCounter_is_binary_file_unreadable_text(content, sample_error) ==
  IF sample_error THEN FALSE
  ELSE LET chunk == ReadChunk(content, chunk_size)
           printable_chars ==
             Cardinality({i \in 1..Len(chunk) :
                            \/ (32 <= chunk[i] /\ chunk[i] <= 126)
                            \/ chunk[i] \in {9, 10, 13}})
       IN  IF \E i \in 1..Len(chunk) : chunk[i] = 0 THEN TRUE
           ELSE IF chunk # <<>>
                THEN 10 * printable_chars < 7 * Len(chunk)
                ELSE FALSE

\* The body of TokenCounter._is_binary_file (count_tokens_file.py) for a
\* file with the given bytes: the null test comes first, the ratio is only
\* taken of a chunk that is not empty, and IOError / OSError gives True.
TokenCounter_is_binary_file(content, sample_error) ==
  IF sample_error THEN TRUE
  ELSE LET chunk == ReadChunk(content, chunk_size)
           printable_chars ==
             Cardinality({i \in 1..Len(chunk) :
                            \/ (32 <= chunk[i] /\ chunk[i] <= 126)
                            \/ chunk[i] \in {9, 10, 13}})
       IN  IF \E i \in 1..Len(chunk) : chunk[i] = 0 THEN TRUE
           ELSE IF chunk # <<>>
                THEN 10 * printable_chars < 7 * Len(chunk)
                ELSE FALSE

\* FolderTokenCounter._is_binary_file
is_binary_file(f) == is_binary(FS[f].content, FS[f].sample_error)

\* ----------------------------------------------------------- discovery
\* (mutant: the binary test of lines 162-164 is left out)
AppendedWithoutBinaryTest(f, include_patterns, exclude_patterns) ==
  /\ ~ SkipInclude(f, include_patterns)
  /\ ~ SkipExclude(f, exclude_patterns)

\* The body of the loop of _get_files_to_process for one file: TRUE iff the
\* file is appended to the list.
Appended(f, include_patterns, exclude_patterns) ==
  /\ ~ SkipInclude(f, include_patterns)
  /\ ~ SkipExclude(f, exclude_patterns)
  /\ ~ is_binary_file(f)

\* FolderTokenCounter._get_files_to_process
get_files_to_process(tree, include_patterns, exclude_patterns) ==
  SelectSeq([i \in Paths |-> i],
            LAMBDA f : f \in tree /\ Appended(f, include_patterns, exclude_patterns))

\* --------------------------------------------------- per-file processing
\* The UTF-8 decoder with errors='ignore', for ASCII bytes, two-byte
\* sequences (lead 0xC2..0xDF, continuation 0x80..0xBF) and bytes that start
\* no sequence: a valid sequence gives its code point, a lead byte without
\* its continuation and any other byte from 0x80 on are dropped.
RECURSIVE decode(_)
decode(bytes) ==
  IF bytes = <<>> THEN <<>>
  ELSE IF Head(bytes) < 128 THEN <<Head(bytes)>> \o decode(Tail(bytes))
  ELSE IF /\ Head(bytes) \in 194..223
          /\ Len(bytes) >= 2
          /\ bytes[2] \in 128..191
       THEN <<(Head(bytes) - 192) * 64 + (bytes[2] - 128)>>
            \o decode(Tail(Tail(bytes)))
       ELSE decode(Tail(bytes))

\* Text mode with the default newline=None: "\r\n" and a lone "\r" are read
\* as "\n".
RECURSIVE translate_newlines(_)
translate_newlines(text) ==
  IF text = <<>> THEN <<>>
  ELSE IF Head(text) = 13
       THEN IF Len(text) >= 2 /\ text[2] = 10
            THEN <<10>> \o translate_newlines(Tail(Tail(text)))
            ELSE <<10>> \o translate_newlines(Tail(text))
       ELSE <<Head(text)>> \o translate_newlines(Tail(text))

\* open(file_path, 'r', encoding='utf-8', errors='ignore').read()
read_text(bytes) == translate_newlines(decode(bytes))

\* self.encoder.encode(content): the tokenizer is an external library; it is
\* stood for by a deterministic encoder that merges adjacent pairs.
RECURSIVE encode(_)
encode(content) ==
  IF Len(content) <= 1 THEN IF content = <<>> THEN <<>> ELSE <<Head(content)>>
  ELSE <<Head(content) * 256 + content[2]>> \o encode(Tail(Tail(content)))

\* What happens while one file is processed: the statement of the try block
\* that raises ("none" when none does) and str(e) of the exception.
Ok == [at |-> "none", msg |-> ""]
Outcomes ==
  { Ok,
    [at |-> "open",   msg |-> "EACCES"],
    [at |-> "stat",   msg |-> "ENOENT"],
    [at |-> "encode", msg |-> ""] }

\* FileResult; error is <<>> for None and <<s>> for the string s.
FileResult(path, token_count, file_size, error) ==
  [path |-> path, token_count |-> token_count, file_size |-> file_size,
   error |-> error]

\* The body of _process_single_file for a file with the given bytes.
process_content(file_path, content, o) ==
  LET tokens == encode(read_text(content))
  IN  IF o.at # "none"
      THEN FileResult(file_path, 0, 0, <<o.msg>>)
      ELSE FileResult(file_path, Len(tokens), Len(content), <<>>)

\* (mutant: the stat call sits after the try block's bookkeeping, so a stat
\*  failure keeps the token count already computed)
process_single_file_keeps_count(file_path, o) ==
  LET tokens == encode(read_text(FS[file_path].content))
  IN  IF o.at \in {"open", "encode"}
      THEN FileResult(file_path, 0, 0, <<o.msg>>)
      ELSE IF o.at = "stat"
           THEN FileResult(file_path, Len(tokens), 0, <<o.msg>>)
           ELSE FileResult(file_path, Len(tokens), Len(FS[file_path].content), <<>>)

\* FolderTokenCounter._process_single_file
process_single_file(file_path, o) ==
  process_content(file_path, FS[file_path].content, o)

\* ------------------------------------------------------------- the fold
\* ProcessingStats() as constructed
ProcessingStats ==
  [total_files |-> 0, processed_files |-> 0, skipped_files |-> 0,
   failed_files |-> 0, total_tokens |-> 0, total_size |-> 0, errors |-> <<>>]

\* Python truth value of result.error (None and "" are false)
Truthy(error) == error # <<>> /\ error[1] # ""

\* (mutant: the size is added to the token total)
FoldResultSizeIntoTokens(st, result) ==
  IF Truthy(result.error)
  THEN [st EXCEPT !.failed_files = @ + 1,
                     !.errors = Append(@, <<result.path, result.error[1]>>)]
  ELSE [st EXCEPT !.processed_files = @ + 1,
                     !.total_tokens = @ + result.token_count + result.file_size,
                     !.total_size = @ + result.file_size]

\* (mutant: the totals are assigned instead of accumulated)
FoldResultAssign(st, result) ==
  IF Truthy(result.error)
  THEN [st EXCEPT !.failed_files = @ + 1,
                     !.errors = Append(@, <<result.path, result.error[1]>>)]
  ELSE [st EXCEPT !.processed_files = @ + 1,
                     !.total_tokens = result.token_count,
                     !.total_size = result.file_size]

\* (mutant: every result is counted as processed, failures as well)
FoldResultCountsEvery(st, result) ==
  IF Truthy(result.error)
  THEN [st EXCEPT !.failed_files = @ + 1,
                     !.processed_files = @ + 1,
                     !.errors = Append(@, <<result.path, result.error[1]>>)]
  ELSE [st EXCEPT !.processed_files = @ + 1,
                     !.total_tokens = @ + result.token_count,
                     !.total_size = @ + result.file_size]

\* The body of the "Compile results" loop for one result.
FoldResult(st, result) ==
  IF Truthy(result.error)
  THEN [st EXCEPT !.failed_files = @ + 1,
                     !.errors = Append(@, <<result.path, result.error[1]>>)]
  ELSE [st EXCEPT !.processed_files = @ + 1,
                     !.total_tokens = @ + result.token_count,
                     !.total_size = @ + result.file_size]

\* ----------------------------------------------------------------- main
\* The exception count_tokens_in_folder raises for the root ("none": it is
\* an existing directory).
root_exception_without_is_dir(kind) ==
  IF kind = "missing" THEN "FileNotFoundError" ELSE "none"

root_exception(kind) ==
  IF kind = "missing" THEN "FileNotFoundError"
  ELSE IF kind = "file" THEN "NotADirectoryError"
  ELSE "none"

\* The exit status main ends with: its except clauses call sys.exit(1),
\* the one for KeyboardInterrupt sys.exit(0); without exception it returns.
main_exit_code(exception) ==
  IF exception \in {"none", "KeyboardInterrupt"} THEN 0 ELSE 1

\* generate_csv_report: the rows written, the header first, then one row per
\* result whose error is false (the formatted size and the time are left out).
generate_csv_report(rs) ==
  << <<"file_path", "token_count", "file_size_bytes">> >>
  \o [i \in 1..Len(SelectSeq(rs, LAMBDA r : ~ Truthy(r.error))) |->
        LET r == SelectSeq(rs, LAMBDA x : ~ Truthy(x.error))[i]
        IN  <<r.path, r.token_count, r.file_size>>]

\* ------------------------------------------------------------ the state
VARIABLES
  tree,              \* the files present under the root
  include_patterns,  \* argument of count_tokens_in_folder
  exclude_patterns,  \* argument of count_tokens_in_folder
  max_workers,       \* self.max_workers (--max-workers)
  root_kind,         \* what folder_path names: "dir", "file" or "missing"
  unlistable,        \* the directories whose listing is denied
  report,            \* whether --report was given
  pc,                \* position of the main thread
  walked,            \* whether os.walk was run
  sampled,           \* the files _is_binary_file was called on
  files,             \* files_to_process
  submitted,         \* number of executor.submit calls made
  queue,             \* the executor's work queue (indices into files)
  cur,               \* cur[w]: the work item worker thread w runs, 0 if idle
  hung,              \* the workers whose call of _process_single_file hangs
  calls,             \* calls[i]: invocations of _process_single_file for item i
  outcome,           \* outcome[i]: what happened while item i was processed
  fut,               \* fut[i]: <<>> while future i is pending, <<result>> once done
  yielded,           \* futures as_completed has yielded
  results,           \* the list built by _process_files_parallel
  k,                 \* number of results folded
  stats,             \* the ProcessingStats being built
  total,             \* the first component of the returned tuple (<<>> before)
  raised,            \* the exception that reached main ("none" if none)
  exit_code,         \* <<>> while the program runs, <<status>> once it ended
  csv,               \* <<>> while no report file is written, else <<rows>>
  run,               \* 1 in the first run of the tool, 2 in a repeated run
  prev,              \* <<>>, or <<stats and outcomes of the first run>>
  sample,            \* a file handed to one function on its own
  verdict,           \* <<>>, or <<what _is_binary_file returned for sample>>
  tverdict,          \* <<>>, or <<what TokenCounter._is_binary_file returned>>
  presult            \* <<>>, or <<what _process_single_file returned for sample>>

\* The arguments and the environment of a run
env == <<tree, include_patterns, exclude_patterns, max_workers, root_kind,
         unlistable, report>>

\* The state of the two runs and of the single-function runs
aux == <<run, prev, sample, verdict, tverdict, presult>>

vars == <<env, pc, walked, sampled, files, submitted, queue, cur, hung, calls,
          outcome, fut, yielded, results, k, stats, total, raised, exit_code,
          csv, aux>>

Workers == 1..MaxWorkers
Items == 1..Len(FS)
NoOutcome == [at |-> "pending", msg |-> ""]
RootKinds == {"dir", "file", "missing"}

\* Sequences over S of length at most n
RECURSIVE SeqsUpTo(_, _)
SeqsUpTo(S, n) ==
  IF n = 0 THEN { <<>> }
  ELSE LET shorter == SeqsUpTo(S, n - 1)
       IN  shorter \cup { Append(s, x) : s \in shorter, x \in S }

Trees == { t \in SUBSET Paths : Cardinality(t) <= MaxFiles }

\* The state of a run before count_tokens_in_folder is called
RunStart ==
  /\ pc = "start"
  /\ walked = FALSE
  /\ sampled = {}
  /\ files = <<>>
  /\ submitted = 0
  /\ queue = <<>>
  /\ cur = [w \in Workers |-> 0]
  /\ hung = {}
  /\ calls = [i \in Items |-> 0]
  /\ outcome = [i \in Items |-> NoOutcome]
  /\ fut = [i \in Items |-> <<>>]
  /\ yielded = {}
  /\ results = <<>>
  /\ k = 0
  /\ stats = ProcessingStats
  /\ total = <<>>
  /\ raised = "none"
  /\ exit_code = <<>>
  /\ csv = <<>>

NoSample == [content |-> <<>>, sample_error |-> FALSE]

InitRest ==
  /\ RunStart
  /\ run = 1
  /\ prev = <<>>
  /\ sample = NoSample
  /\ verdict = <<>>
  /\ tverdict = <<>>
  /\ presult = <<>>

\* The pipeline runs: no pattern or one pattern on either side, any root,
\* any worker count from 0 on.
Init ==
  /\ tree \in Trees
  /\ include_patterns \in SeqsUpTo(Patterns, 1)
  /\ exclude_patterns \in SeqsUpTo(Patterns, 1)
  /\ max_workers \in 0..MaxWorkers
  /\ root_kind \in RootKinds
  /\ unlistable \in SUBSET Dirs
  /\ report \in BOOLEAN
  /\ InitRest

\* The filter runs: every pattern list up to MaxPatterns, one worker, every
\* directory listable.
InitFilter ==
  /\ tree \in Trees
  /\ include_patterns \in SeqsUpTo(Patterns, MaxPatterns)
  /\ exclude_patterns \in SeqsUpTo(Patterns, MaxPatterns)
  /\ max_workers = 1
  /\ root_kind \in RootKinds
  /\ unlistable = {}
  /\ report = FALSE
  /\ InitRest

\* The runs without patterns in which every directory can be listed.
InitPlain ==
  /\ tree \in Trees
  /\ include_patterns = <<>>
  /\ exclude_patterns = <<>>
  /\ max_workers \in 1..MaxWorkers
  /\ root_kind \in RootKinds
  /\ unlistable = {}
  /\ report = FALSE
  /\ InitRest

\* ------------------------------------------------------ the main thread
\* count_tokens_in_folder raises for the root; main prints and exits.
RootError ==
  /\ pc = "start"
  /\ root_exception(root_kind) # "none"
  /\ raised' = root_exception(root_kind)
  /\ exit_code' = <<main_exit_code(raised')>>
  /\ pc' = "exit"
  /\ UNCHANGED <<env, walked, sampled, files, submitted, queue, cur, hung,
                 calls, outcome, fut, yielded, results, k, stats, total, csv,
                 aux>>

\* count_tokens_in_folder up to the call of _process_files_parallel.
Discover ==
  /\ pc = "start"
  /\ root_exception(root_kind) = "none"
  /\ walked' = TRUE
  /\ sampled' = { f \in Walk(tree, unlistable) :
                    /\ ~ SkipInclude(f, include_patterns)
                    /\ ~ SkipExclude(f, exclude_patterns) }
  /\ files' = get_files_to_process(Walk(tree, unlistable), include_patterns,
                                   exclude_patterns)
  /\ stats' = [stats EXCEPT !.total_files = Len(files')]
  /\ pc' = "pool"
  /\ UNCHANGED <<env, submitted, queue, cur, hung, calls, outcome, fut,
                 yielded, results, k, total, raised, exit_code, csv, aux>>

\* ThreadPoolExecutor(max_workers=self.max_workers): the constructor raises
\* ValueError for max_workers <= 0, which reaches main's "except Exception".
CreatePool ==
  /\ pc = "pool"
  /\ IF max_workers <= 0
     THEN /\ raised' = "ValueError"
          /\ exit_code' = <<main_exit_code(raised')>>
          /\ pc' = "exit"
     ELSE /\ pc' = "submit"
          /\ UNCHANGED <<raised, exit_code>>
  /\ UNCHANGED <<env, walked, sampled, files, submitted, queue, cur, hung,
                 calls, outcome, fut, yielded, results, k, stats, total, csv,
                 aux>>

\* One executor.submit(self._process_single_file, file_path).
Submit ==
  /\ pc = "submit"
  /\ submitted < Len(files)
  /\ submitted' = submitted + 1
  /\ queue' = Append(queue, submitted + 1)
  /\ UNCHANGED <<env, pc, walked, sampled, files, cur, hung, calls, outcome,
                 fut, yielded, results, k, stats, total, raised, exit_code,
                 csv, aux>>

\* The dict of futures is complete; as_completed is called.
AsCompleted ==
  /\ pc = "submit"
  /\ submitted = Len(files)
  /\ pc' = "collect"
  /\ UNCHANGED <<env, walked, sampled, files, submitted, queue, cur, hung,
                 calls, outcome, fut, yielded, results, k, stats, total,
                 raised, exit_code, csv, aux>>

\* One iteration of "for future in as_completed(...)": a finished future
\* that was not yielded yet is yielded and its result appended.
Collect(i) ==
  /\ pc = "collect"
  /\ i \in 1..submitted
  /\ i \notin yielded
  /\ fut[i] # <<>>
  /\ yielded' = yielded \cup {i}
  /\ results' = Append(results, fut[i][1])
  /\ UNCHANGED <<env, pc, walked, sampled, files, submitted, queue, cur, hung,
                 calls, outcome, fut, k, stats, total, raised, exit_code, csv,
                 aux>>

\* (mutant: the return sits inside the collecting loop)
LoopExhaustedAfterFirst(done, n) == n = 0 \/ done # {}

\* as_completed is exhausted once every future was yielded.
LoopExhausted(done, n) == done = 1..n

\* The with block is left and _process_files_parallel returns.
Return ==
  /\ pc = "collect"
  /\ LoopExhausted(yielded, submitted)
  /\ pc' = "fold"
  /\ UNCHANGED <<env, walked, sampled, files, submitted, queue, cur, hung,
                 calls, outcome, fut, yielded, results, k, stats, total,
                 raised, exit_code, csv, aux>>

\* One iteration of the "Compile results" loop.
FoldStep ==
  /\ pc = "fold"
  /\ k < Len(results)
  /\ stats' = FoldResult(stats, results[k + 1])
  /\ k' = k + 1
  /\ UNCHANGED <<env, pc, walked, sampled, files, submitted, queue, cur, hung,
                 calls, outcome, fut, yielded, results, total, raised,
                 exit_code, csv, aux>>

\* (mutant: the failed files are left out of the subtraction)
SkippedFilesForgetsFailed(s) == s.total_files - s.processed_files

\* stats.total_files - stats.processed_files - stats.failed_files
SkippedFiles(s) == s.total_files - s.processed_files - s.failed_files

\* The statements after the loop and the return of count_tokens_in_folder.
Finish ==
  /\ pc = "fold"
  /\ k = Len(results)
  /\ stats' = [stats EXCEPT !.skipped_files = SkippedFiles(stats)]
  /\ total' = <<stats.total_tokens>>
  /\ pc' = "done"
  /\ UNCHANGED <<env, walked, sampled, files, submitted, queue, cur, hung,
                 calls, outcome, fut, yielded, results, k, raised, exit_code,
                 csv, aux>>

\* main after count_tokens_in_folder returned: the "if args.report" branch
\* only prints that the report is not implemented (no file is written), the
\* summary is printed and main returns.
MainExit ==
  /\ pc = "done"
  /\ csv' = <<>>
  /\ exit_code' = <<main_exit_code(raised)>>
  /\ pc' = "exit"
  /\ UNCHANGED <<env, walked, sampled, files, submitted, queue, cur, hung,
                 calls, outcome, fut, yielded, results, k, stats, total,
                 raised, aux>>

\* ---------------------------------------------------- the worker threads
\* (mutant: the pool starts a thread for every queued item)
PoolHasThreadAlways(w, n) == TRUE

\* (mutant: the pool runs one thread whatever max_workers is)
PoolHasThreadSingle(w, n) == w = 1

\* (mutant: the pool runs one thread less than max_workers)
PoolHasThreadOffByOne(w, n) == w < n

\* ThreadPoolExecutor(max_workers=n) runs at most n worker threads.
PoolHasThread(w, n) == w <= n

\* (mutant: the work item is read but left in the queue)
QueueAfterGetKeepsItem(q) == q

\* work_queue.get()
QueueAfterGet(q) == Tail(q)

\* An idle worker thread takes the next work item and calls
\* _process_single_file on it.
WorkerStart(w) ==
  /\ PoolHasThread(w, max_workers)
  /\ cur[w] = 0
  /\ queue # <<>>
  /\ calls[Head(queue)] < 2   \* the call counter stops at one call too many
  /\ cur' = [cur EXCEPT ![w] = Head(queue)]
  /\ calls' = [calls EXCEPT ![Head(queue)] = @ + 1]
  /\ queue' = QueueAfterGet(queue)
  /\ UNCHANGED <<env, pc, walked, sampled, files, submitted, hung, outcome,
                 fut, yielded, results, k, stats, total, raised, exit_code,
                 csv, aux>>

\* The directory tree is unchanged in a repeated run: what happens to a file
\* is what happened to it in the first run.
SameAsBefore(i, o) == IF prev = <<>> THEN TRUE ELSE o = prev[1].outcome[i]

\* _process_single_file returns in worker w; the future gets its result.
WorkerFinish(w, o) ==
  /\ cur[w] # 0
  /\ w \notin hung
  /\ SameAsBefore(cur[w], o)
  /\ fut' = [fut EXCEPT ![cur[w]] = <<process_single_file(files[cur[w]], o)>>]
  /\ outcome' = [outcome EXCEPT ![cur[w]] = o]
  /\ cur' = [cur EXCEPT ![w] = 0]
  /\ UNCHANGED <<env, pc, walked, sampled, files, submitted, queue, hung,
                 calls, yielded, results, k, stats, total, raised, exit_code,
                 csv, aux>>

\* The read or the encode call of worker w never returns (one call at most
\* hangs in a run).
WorkerHang(w) ==
  /\ cur[w] # 0
  /\ hung = {}
  /\ hung' = {w}
  /\ UNCHANGED <<env, pc, walked, sampled, files, submitted, queue, cur,
                 calls, outcome, fut, yielded, results, k, stats, total,
                 raised, exit_code, csv, aux>>

\* The steps of the main thread
Main ==
  \/ RootError
  \/ Discover
  \/ CreatePool
  \/ Submit
  \/ AsCompleted
  \/ \E i \in Items : Collect(i)
  \/ Return
  \/ FoldStep
  \/ Finish
  \/ MainExit

Next ==
  \/ RootError
  \/ Discover
  \/ CreatePool
  \/ Submit
  \/ AsCompleted
  \/ \E i \in Items : Collect(i)
  \/ Return
  \/ FoldStep
  \/ Finish
  \/ MainExit
  \/ \E w \in Workers : WorkerStart(w)
  \/ \E w \in Workers, o \in Outcomes : WorkerFinish(w, o)

Spec == Init /\ [][Next]_vars

SpecFilter == InitFilter /\ [][Next]_vars

\* ------------------------------------------------------- repeated runs
\* The tool is started again on the same directory with the same arguments
\* after a run that ended normally.
Rerun ==
  /\ pc = "exit"
  /\ exit_code = <<0>>
  /\ run = 1
  /\ run' = 2
  /\ prev' = <<[stats |-> stats, outcome |-> outcome]>>
  /\ pc' = "start"
  /\ walked' = FALSE
  /\ sampled' = {}
  /\ files' = <<>>
  /\ submitted' = 0
  /\ queue' = <<>>
  /\ calls' = [i \in Items |-> 0]
  /\ outcome' = [i \in Items |-> NoOutcome]
  /\ fut' = [i \in Items |-> <<>>]
  /\ yielded' = {}
  /\ results' = <<>>
  /\ k' = 0
  /\ stats' = ProcessingStats
  /\ total' = <<>>
  /\ exit_code' = <<>>
  /\ UNCHANGED <<env, cur, hung, raised, csv, sample, verdict, tverdict,
                 presult>>

NextTwice == Next \/ Rerun

SpecTwice == InitPlain /\ [][NextTwice]_vars

\* ---------------------------------------------------- fair scheduling
\* The main thread and every worker thread keep being scheduled.
Fairness ==
  /\ WF_vars(Main)
  /\ \A w \in Workers :
       /\ WF_vars(WorkerStart(w))
       /\ WF_vars(\E o \in Outcomes : WorkerFinish(w, o))

\* Every read and every encode call returns.
SpecLive == InitPlain /\ [][Next]_vars /\ Fairness

NextHang == Next \/ \E w \in Workers : WorkerHang(w)

\* One call may hang.
SpecHang == InitPlain /\ [][NextHang]_vars /\ Fairness

\* ------------------------------------------------------- the interrupt
\* KeyboardInterrupt is raised in the main thread inside the with block of
\* _process_files_parallel (in the submit loop or in as_completed).  Leaving
\* the with block calls executor.shutdown(wait=True): no future is cancelled
\* and the main thread joins the worker threads.
Interrupt ==
  /\ pc \in {"submit", "collect"}
  /\ raised' = "KeyboardInterrupt"
  /\ pc' = "shutdown"
  /\ UNCHANGED <<env, walked, sampled, files, submitted, queue, cur, hung,
                 calls, outcome, fut, yielded, results, k, stats, total,
                 exit_code, csv, aux>>

\* The worker threads have taken every queued work item and ended; the
\* exception reaches main, which prints the notice and calls sys.exit(0).
PoolShutdown ==
  /\ pc = "shutdown"
  /\ queue = <<>>
  /\ \A w \in Workers : cur[w] = 0
  /\ exit_code' = <<main_exit_code(raised)>>
  /\ pc' = "exit"
  /\ UNCHANGED <<env, walked, sampled, files, submitted, queue, cur, hung,
                 calls, outcome, fut, yielded, results, k, stats, total,
                 raised, csv, aux>>

NextInterrupt == Next \/ Interrupt \/ PoolShutdown

\* The user may interrupt the run while the files are processed.
SpecInterrupt == InitPlain /\ [][NextInterrupt]_vars

\* ------------------------------------------- single functions on a file
\* The bytes of the chunks and contents tried
ChunkBytes == {0, 126, 127}
EdgeBytes == {8, 9, 10, 11, 12, 13, 14, 31, 32, 65, 128, 255}
ContentBytes == {65, 13, 10, 255, 195, 169}

\* n bytes b
Fill(n, b) == [i \in 1..n |-> b]

\* Contents that reach past chunk_size: a null byte right after the chunk;
\* an unprintable chunk before printable bytes; a chunk just below and a
\* chunk just above 70% printable, followed by bytes of the other kind.
LongContents ==
  { Fill(chunk_size, 126) \o Fill(1, 0),
    Fill(chunk_size, 127) \o Fill(3 * chunk_size, 126),
    Fill(716, 126) \o Fill(chunk_size - 716, 127) \o Fill(chunk_size, 126),
    Fill(717, 126) \o Fill(chunk_size - 717, 127) \o Fill(chunk_size, 127) }

InitClassify ==
  /\ tree = {}
  /\ include_patterns = <<>>
  /\ exclude_patterns = <<>>
  /\ max_workers = 1
  /\ root_kind = "dir"
  /\ unlistable = {}
  /\ report = FALSE
  /\ RunStart
  /\ run = 1
  /\ prev = <<>>
  /\ sample \in
       [content : SeqsUpTo(ChunkBytes, MaxChunk)
                  \cup { <<b>> : b \in EdgeBytes }
                  \cup LongContents,
        sample_error : BOOLEAN]
  /\ verdict = <<>>
  /\ tverdict = <<>>
  /\ presult = <<>>

\* _is_binary_file is called on the sample.
Classify ==
  /\ verdict = <<>>
  /\ verdict' = <<is_binary(sample.content, sample.sample_error)>>
  /\ UNCHANGED <<env, pc, walked, sampled, files, submitted, queue, cur, hung,
                 calls, outcome, fut, yielded, results, k, stats, total,
                 raised, exit_code, csv, run, prev, sample, tverdict,
                 presult>>

SpecClassify == InitClassify /\ [][Classify]_vars

\* TokenCounter._is_binary_file of the single-file tool is called on the
\* sample.
ClassifyFile ==
  /\ tverdict = <<>>
  /\ tverdict' = <<TokenCounter_is_binary_file(sample.content,
                                                sample.sample_error)>>
  /\ UNCHANGED <<env, pc, walked, sampled, files, submitted, queue, cur, hung,
                 calls, outcome, fut, yielded, results, k, stats, total,
                 raised, exit_code, csv, run, prev, sample, verdict, presult>>

\* Both tools classify the same file.
SpecBoth == InitClassify /\ [][Classify \/ ClassifyFile]_vars

InitProcess ==
  /\ tree = {}
  /\ include_patterns = <<>>
  /\ exclude_patterns = <<>>
  /\ max_workers = 1
  /\ root_kind = "dir"
  /\ unlistable = {}
  /\ report = FALSE
  /\ RunStart
  /\ run = 1
  /\ prev = <<>>
  /\ sample \in [content : SeqsUpTo(ContentBytes, MaxContent),
                 sample_error : {FALSE}]
  /\ verdict = <<>>
  /\ tverdict = <<>>
  /\ presult = <<>>

\* _process_single_file is called on the sample.
Process(o) ==
  /\ presult = <<>>
  /\ presult' = <<[result |-> process_content(0, sample.content, o),
                   outcome |-> o]>>
  /\ UNCHANGED <<env, pc, walked, sampled, files, submitted, queue, cur, hung,
                 calls, outcome, fut, yielded, results, k, stats, total,
                 raised, exit_code, csv, run, prev, sample, verdict,
                 tverdict>>

SpecProcess == InitProcess /\ [][\E o \in Outcomes : Process(o)]_vars

\* ============================================================== claims
Range(seq) == { seq[i] : i \in 1..Len(seq) }

\* Sum of the token counts of the results of seq
RECURSIVE SumTokenCount(_)
SumTokenCount(seq) ==
  IF seq = <<>> THEN 0 ELSE Head(seq).token_count + SumTokenCount(Tail(seq))

\* Sum of the file sizes of the results of seq
RECURSIVE SumFileSize(_)
SumFileSize(seq) ==
  IF seq = <<>> THEN 0 ELSE Head(seq).file_size + SumFileSize(Tail(seq))

\* The results whose error is None
Successful(seq) == SelectSeq(seq, LAMBDA r : r.error = <<>>)

\* The work items of the run and what became of them
Tasks == 1..Len(files)
Running == { w \in Workers : cur[w] # 0 }

\* C1: when count_tokens_in_folder has completed, total_files equals
\* processed_files + failed_files + skipped_files and the four counters are
\* non-negative, whatever the tree, the patterns, the worker count and the
\* per-file outcomes.
Inv_C1 ==
  pc = "done" =>
    /\ stats.total_files =
         stats.processed_files + stats.failed_files + stats.skipped_files
    /\ stats.total_files >= 0
    /\ stats.processed_files >= 0
    /\ stats.failed_files >= 0
    /\ stats.skipped_files >= 0

\* A completed run with both processed and failed files.
Witness_C1 ==
  /\ pc = "done"
  /\ stats.processed_files > 0
  /\ stats.failed_files > 0

\* C2: at completion skipped_files is the number of files under the root
\* that the filters or the binary detection kept out of the work list, and
\* total_files counts every file encountered.
CE_C2 ==
  pc = "done" =>
    /\ stats.total_files = Cardinality(tree)
    /\ stats.skipped_files = Cardinality(tree \ Range(files))

\* C3: at completion total_tokens is the sum of token_count over the
\* successful results and total_size the sum of their sizes, failed results
\* adding nothing, and the returned total is stats.total_tokens.
Inv_C3 ==
  pc = "done" =>
    /\ stats.total_tokens = SumTokenCount(Successful(results))
    /\ stats.total_size = SumFileSize(Successful(results))
    /\ total = <<stats.total_tokens>>

\* A completed run whose results hold a success with tokens, a failure with
\* a message and a failure without one.
Witness_C3 ==
  /\ pc = "done"
  /\ \E r \in Range(results) : r.error = <<>> /\ r.token_count > 0
  /\ \E r \in Range(results) : r.error = <<"">>
  /\ \E r \in Range(results) : Truthy(r.error)

\* C4: the dispatcher returns one FileResult per task: every work item was
\* handed to _process_single_file exactly once, never twice at any time, and
\* the result of each task carries the path of that task.
Inv_C4 ==
  /\ \A i \in Items : calls[i] <= 1
  /\ pc \in {"fold", "done"} =>
       /\ Len(results) = Len(files)
       /\ \A i \in Tasks :
            /\ calls[i] = 1
            /\ fut[i] # <<>>
            /\ fut[i][1].path = files[i]
            /\ Cardinality({j \in 1..Len(results) : results[j] = fut[i][1]}) = 1

\* The dispatcher has returned three results, not in submission order, one
\* of them a failure.
Witness_C4 ==
  /\ pc = "fold"
  /\ Len(files) = 3
  /\ results[1].path # files[1]
  /\ \E r \in Range(results) : r.error # <<>>

\* C5: every result of _process_single_file is either a success with error
\* absent or a failure with error present, token_count 0 and file_size 0; a
\* failure at any statement of the try block, the stat call included, gives
\* the latter.
Inv_C5 ==
  \A i \in Items :
    fut[i] # <<>> =>
      LET r == fut[i][1] IN
      /\ outcome[i] = Ok => r.error = <<>>
      /\ outcome[i] # Ok =>
           r.error = <<outcome[i].msg>> /\ r.token_count = 0 /\ r.file_size = 0
      /\ (r.error = <<>>) # (r.error # <<>> /\ r.token_count = 0)

\* The stat call failed for a file whose content encodes to tokens.
Witness_C5 ==
  \E i \in Tasks :
    /\ fut[i] # <<>>
    /\ outcome[i].at = "stat"
    /\ Len(encode(read_text(FS[files[i]].content))) > 0
    /\ fut[i][1].token_count = 0

\* C6: at completion failed_files is the number of tasks whose processing
\* failed, whatever the exception's message, each of them has one entry in
\* errors, and none of them is counted as processed.
CE_C6 ==
  pc = "done" =>
    /\ stats.failed_files = Cardinality({i \in Tasks : outcome[i] # Ok})
    /\ Len(stats.errors) = stats.failed_files
    /\ stats.processed_files = Cardinality({i \in Tasks : outcome[i] = Ok})

\* The tokens of task i as its outcome fixes them
TokensOf(i) ==
  IF outcome[i] = Ok THEN Len(encode(read_text(FS[files[i]].content))) ELSE 0

\* Sum of TokensOf over the tasks of S
RECURSIVE SumTokensOf(_)
SumTokensOf(S) ==
  IF S = {} THEN 0
  ELSE LET i == CHOOSE j \in S : TRUE IN TokensOf(i) + SumTokensOf(S \ {i})

\* C7: at completion total_tokens, processed_files and failed_files are fixed
\* by the files and their outcomes alone: the worker count and the order in
\* which the results arrived play no part.
Inv_C7 ==
  pc = "done" =>
    /\ stats.total_tokens = SumTokensOf(Tasks)
    /\ stats.processed_files = Cardinality({i \in Tasks : outcome[i].msg = ""})
    /\ stats.failed_files = Cardinality({i \in Tasks : outcome[i].msg # ""})

\* Two workers, two successes with different token counts that arrived in
\* the order opposite to their submission.
Witness_C7 ==
  /\ pc = "done"
  /\ max_workers = 2
  /\ \E i, j \in 1..Len(results) :
       /\ i < j
       /\ results[i].error = <<>>
       /\ results[j].error = <<>>
       /\ results[i].token_count # results[j].token_count
       /\ \E a, b \in Tasks :
            a > b /\ files[a] = results[i].path /\ files[b] = results[j].path

\* C8: at most max_workers invocations of _process_single_file are in
\* progress at once, no work item is run by two workers, and a started item
\* is the only one of its worker.
Inv_C8 ==
  /\ Cardinality(Running) <= max_workers
  /\ Cardinality({i \in Items : calls[i] > 0 /\ fut[i] = <<>>}) <= max_workers
  /\ \A v, w \in Running : v # w => cur[v] # cur[w]

\* Every worker of the pool is busy and a task waits in the queue.
Witness_C8 ==
  /\ Cardinality(Running) = max_workers
  /\ max_workers < MaxWorkers
  /\ queue # <<>>

\* The counters the fold writes
Counters(s) ==
  <<s.processed_files, s.failed_files, s.total_tokens, s.total_size, s.errors>>

\* C9: _process_files_parallel returns only when every submitted task has
\* completed, the counters of ProcessingStats change only while no worker
\* runs and no task waits, and a step of a worker leaves the stats alone.
Thm_C9 ==
  /\ [](pc \in {"fold", "done"} =>
          /\ Running = {}
          /\ queue = <<>>
          /\ \A i \in Tasks : fut[i] # <<>>)
  /\ [][ /\ Counters(stats') # Counters(stats) =>
              Running = {} /\ queue = <<>> /\ \A i \in Tasks : fut[i] # <<>>
         /\ cur' # cur => stats' = stats ]_vars

\* The fold has written the counters after two workers ran the tasks.
Witness_C9 ==
  /\ pc = "fold"
  /\ k >= 1
  /\ Len(results) >= 2
  /\ max_workers = 2
  /\ Counters(stats) # Counters(ProcessingStats)

\* C10: after discovery a file is in the work list iff it is not classified
\* binary, include_patterns is empty or its base name matches one of them,
\* and exclude_patterns is empty or its base name matches none of them; a
\* file matching an exclude pattern is never listed.
Inv_C10 ==
  walked =>
    \A f \in tree :
      LET name == FS[f].filename
          included == include_patterns = <<>>
                      \/ \E p \in Range(include_patterns) : fnmatch(name, p)
          excluded == \E p \in Range(exclude_patterns) : fnmatch(name, p)
      IN  /\ f \in Range(files) <=> included /\ ~ excluded /\ ~ is_binary_file(f)
          /\ excluded => f \notin Range(files)

\* A text file matches an include and an exclude pattern and is left out,
\* while a file whose directory (but not its name) matches the exclude
\* pattern is listed.
Witness_C10 ==
  /\ pc # "start"
  /\ \E f \in tree :
       /\ ~ is_binary_file(f)
       /\ \E p \in Range(include_patterns) : fnmatch(FS[f].filename, p)
       /\ \E p \in Range(exclude_patterns) : fnmatch(FS[f].filename, p)
       /\ f \notin Range(files)
  /\ \E f \in Range(files) :
       \E p \in Range(exclude_patterns) : fnmatch(FullPath(f), p)

\* The first 1024 bytes of the sample and the bytes the claim counts as text
SampledChunk ==
  [i \in 1..(IF Len(sample.content) < 1024 THEN Len(sample.content) ELSE 1024)
     |-> sample.content[i]]
TextBytes == (32..126) \cup {9, 10, 13}
TextCount(chunk) == Cardinality({i \in 1..Len(chunk) : chunk[i] \in TextBytes})

\* C11: _is_binary_file answers from the first 1024 bytes only: true iff the
\* chunk holds a 0 byte or fewer than 70% of its bytes are text bytes (exactly
\* 70% is text), false for an empty file, true when sampling raises an I/O
\* error.
Inv_C11 ==
  verdict # <<>> =>
    verdict[1] =
      IF sample.sample_error THEN TRUE
      ELSE IF SampledChunk = <<>> THEN FALSE
      ELSE \/ \E i \in 1..Len(SampledChunk) : SampledChunk[i] = 0
           \/ 10 * TextCount(SampledChunk) < 7 * Len(SampledChunk)

\* A chunk of ten bytes, seven of them text bytes and none 0, was classified
\* text.
Witness_C11 ==
  /\ verdict = <<FALSE>>
  /\ ~ sample.sample_error
  /\ Len(sample.content) = 10
  /\ TextCount(sample.content) = 7

\* The text of the claim: the decoded content
ClaimText == decode(sample.content)

\* C12: a file that is opened and read without failure gives a success whose
\* token_count is the length of encode applied to its content decoded as
\* UTF-8 with the undecodable sequences dropped; an empty file gives 0 tokens
\* and is counted as processed.
CE_C12 ==
  (presult # <<>> /\ presult[1].outcome = Ok) =>
    /\ presult[1].result.error = <<>>
    /\ presult[1].result.token_count = Len(encode(ClaimText))
    /\ FoldResult(ProcessingStats, presult[1].result).processed_files = 1
    /\ sample.content = <<>> => presult[1].result.token_count = 0

\* C13: a listed file that cannot be opened any more when it is processed
\* gives one failed result and one entry of errors, the run completes, and
\* the processed count and the totals are those of the other tasks alone.
Inv_C13 ==
  pc = "done" =>
    \A i \in Tasks :
      outcome[i].at \in {"open", "stat"} =>
        /\ Cardinality({j \in 1..Len(results) : results[j].path = files[i]}) = 1
        /\ \A j \in 1..Len(results) :
             results[j].path = files[i] => Truthy(results[j].error)
        /\ Cardinality({j \in 1..Len(stats.errors) :
                          stats.errors[j][1] = files[i]}) = 1
        /\ stats.failed_files >= 1
        /\ stats.total_tokens = SumTokensOf(Tasks \ {i})
        /\ stats.processed_files =
             Cardinality({j \in Tasks \ {i} : ~ Truthy(<<outcome[j].msg>>)})
        /\ stats.total_size =
             SumFileSize(Successful([j \in 1..Len(results) |->
               IF results[j].path = files[i]
               THEN FileResult(files[i], 0, 0, <<>>) ELSE results[j]]))

\* A run completed in which one file could not be opened and another one
\* gave tokens.
Witness_C13 ==
  /\ pc = "done"
  /\ \E i, j \in Tasks :
       /\ outcome[i].at = "open"
       /\ outcome[j] = Ok
       /\ stats.total_tokens > 0
       /\ stats.failed_files = 1

\* C14: a missing root raises FileNotFoundError and a root that is no
\* directory NotADirectoryError; nothing was walked, sampled or processed, no
\* stats were produced and the tool exits with 1.
Inv_C14 ==
  (root_kind # "dir" /\ pc # "start") =>
    /\ pc = "exit"
    /\ raised = (IF root_kind = "missing" THEN "FileNotFoundError"
                 ELSE "NotADirectoryError")
    /\ exit_code = <<1>>
    /\ ~ walked
    /\ sampled = {}
    /\ \A i \in Items : calls[i] = 0
    /\ stats = ProcessingStats
    /\ total = <<>>

\* The tool has ended on a root that is a regular file.
Witness_C14 ==
  /\ pc = "exit"
  /\ root_kind = "file"
  /\ raised = "NotADirectoryError"

\* C15: a directory that cannot be listed during discovery aborts the run:
\* PermissionError reaches main, the exit status is not 0, no file is
\* processed and no total is reported.
CE_C15 ==
  (root_kind = "dir" /\ unlistable # {} /\ pc # "start") =>
    /\ pc = "exit"
    /\ raised = "PermissionError"
    /\ exit_code = <<1>>
    /\ \A i \in Items : calls[i] = 0
    /\ total = <<>>

\* C16: when the invalid worker count is reported, no directory was walked,
\* no file was sampled and none was processed.
CE_C16 ==
  raised = "ValueError" =>
    /\ ~ walked
    /\ sampled = {}
    /\ \A i \in Items : calls[i] = 0

\* The counters and totals of a ProcessingStats
Totals(s) ==
  <<s.total_files, s.processed_files, s.skipped_files, s.failed_files,
    s.total_tokens, s.total_size>>

\* C17 (as claimed): the second run on the unchanged tree ends with the
\* ProcessingStats of the first, the ordered error list included.
CE_C17 ==
  (run = 2 /\ pc = "done") => stats = prev[1].stats

\* C17 (amended): the second run on the unchanged tree ends with the same
\* counters, the same totals and the same error messages as the first; the
\* order of the error messages is the order in which the results arrived and
\* may differ.
Inv_C17 ==
  (run = 2 /\ pc = "done") =>
    /\ Totals(stats) = Totals(prev[1].stats)
    /\ Range(stats.errors) = Range(prev[1].stats.errors)
    /\ Len(stats.errors) = Len(prev[1].stats.errors)

\* The second run has completed with the two error messages of the first
\* run in the other order.
Witness_C17 ==
  /\ run = 2
  /\ pc = "done"
  /\ Len(stats.errors) = 2
  /\ stats.errors # prev[1].stats.errors
  /\ stats.processed_files > 0

\* C18: a run that ended normally and was given a report path has written
\* the header row and one row per successfully processed file.
CE_C18 ==
  (pc = "exit" /\ raised = "none" /\ report) =>
    csv = <<generate_csv_report(results)>>

\* The work items whose call hangs
HungItems == { cur[w] : w \in hung }

\* C19: with two workers or more, once a call hangs every other task is
\* eventually completed by the other workers, and while a call hangs the
\* dispatcher never returns and no stats are reported.
Thm_C19 ==
  /\ [](hung # {} => (pc \notin {"fold", "done", "exit"} /\ total = <<>>))
  /\ (hung # {} /\ max_workers >= 2)
       ~> (/\ submitted = Len(files)
           /\ \A i \in Tasks : i \notin HungItems => fut[i] # <<>>)

\* A call hangs and the two other tasks were completed meanwhile.
Witness_C19 ==
  /\ hung # {}
  /\ max_workers >= 2
  /\ Len(files) = 3
  /\ \A i \in Tasks : i \notin HungItems => fut[i] # <<>>

\* C20: under fair scheduling, when every call returns, a run on a
\* directory with one worker or more processes every task, the dispatcher
\* returns and the run completes with its stats finalized.
Thm_C20 ==
  (pc = "start" /\ root_kind = "dir" /\ max_workers >= 1)
    ~> (/\ pc = "done"
        /\ \A i \in Tasks : fut[i] # <<>>
        /\ k = Len(files)
        /\ total = <<stats.total_tokens>>)

\* One worker has processed three tasks and the run has completed.
Witness_C20 ==
  /\ pc = "done"
  /\ max_workers = 1
  /\ Len(files) = 3
  /\ stats.processed_files + stats.failed_files = 3

\* A file of the tree is classified binary: its sample cannot be read, or
\* the first 1024 bytes hold a 0 byte, or fewer than 70% of them are text
\* bytes.
ClassifiedBinary(f) ==
  LET content == FS[f].content
      n == IF Len(content) < 1024 THEN Len(content) ELSE 1024
      chunk == [i \in 1..n |-> content[i]]
  IN  \/ FS[f].sample_error
      \/ \E i \in 1..n : chunk[i] = 0
      \/ n > 0 /\ 10 * TextCount(chunk) < 7 * n

\* C22: a file classified binary during discovery (a file whose sampling
\* fails included) is never a task: no worker runs _process_single_file on
\* it, no future and no result carries its path, errors has no entry for it,
\* and at completion the counters and totals are those of the other files.
Inv_C22 ==
  \A f \in tree :
    ClassifiedBinary(f) =>
      /\ f \notin Range(files)
      /\ \A w \in Workers : cur[w] # 0 => files[cur[w]] # f
      /\ \A i \in Items : fut[i] # <<>> => fut[i][1].path # f
      /\ \A j \in 1..Len(results) : results[j].path # f
      /\ \A j \in 1..Len(stats.errors) : stats.errors[j][1] # f
      /\ pc = "done" =>
           /\ stats.processed_files + stats.failed_files
                = Cardinality(Range(files) \ {f})
           /\ stats.total_tokens = SumTokenCount(
                SelectSeq(results, LAMBDA r : r.path # f /\ ~ Truthy(r.error)))
           /\ stats.total_size = SumFileSize(
                SelectSeq(results, LAMBDA r : r.path # f /\ ~ Truthy(r.error)))

\* A run has completed on a tree with a file holding a 0 byte, a file whose
\* sampling failed and a text file; both were sampled and only the text file
\* was processed.
Witness_C22 ==
  /\ pc = "done"
  /\ \E f, g \in sampled :
       /\ FS[f].sample_error
       /\ ~ FS[g].sample_error /\ ClassifiedBinary(g)
  /\ Len(files) = 1
  /\ stats.processed_files = 1
  /\ stats.total_tokens > 0

\* C23: TokenCounter._is_binary_file of the single-file tool and
\* FolderTokenCounter._is_binary_file of the folder tool give the same verdict
\* on the same file: for an empty chunk, a chunk with a null byte, a chunk
\* at, below and above 70% printable, and a sample that cannot be read.
Inv_C23 ==
  (verdict # <<>> /\ tverdict # <<>>) => verdict = tverdict

\* Both tools took a chunk of ten bytes with exactly seven printable ones as
\* text.
Witness_C23 ==
  /\ verdict = <<FALSE>>
  /\ tverdict = <<FALSE>>
  /\ Len(sample.content) = 10
  /\ TextCount(sample.content) = 7

\* C21: once the interrupt has arrived while the files are processed, the
\* pool starts no further task, and the process ends with exit code 0
\* without having returned a total.
CE_C21 ==
  [][raised = "KeyboardInterrupt" =>
       /\ calls' = calls
       /\ pc' = "exit" => (exit_code' = <<0>> /\ total' = <<>>)]_vars

====
